---- MODULE Spec2Model ----
(***************************************************************************)
(* Persistent red-black tree (tree/tree.go) and its drivers (example.go).  *)
(*                                                                         *)
(* A *node is either Nil or a record [item, c, left, right] holding its    *)
(* children by value.  The Go code never assigns to a field of a node that *)
(* is reachable from a tree: copyWithEntry/copyWithLeft/copyWithRight have *)
(* value receivers and write to the copy, every other function builds new  *)
(* node literals.  A pointer to a node therefore always denotes the same   *)
(* subtree, which is what a record value denotes here.                     *)
(*                                                                         *)
(* A nil-pointer dereference is a run-time panic in Go; the operators      *)
(* return Panic for it and pass a Panic of any operand on to their result. *)
(***************************************************************************)
EXTENDS Integers, Sequences, FiniteSets, TLC

VARIABLES
    cmp,      \* the comparator handed to NewRedBlack
    a,        \* the driver's tree rb / rb1
    b,        \* the driver's tree rb2
    last,     \* the last call on a tree: operation, receiver, argument, result
    it,       \* the nodeIterator of the driver's for-loop over a
    seen,     \* the items the loop has read with Elem so far
    pc,       \* position in the loop: "idle", "test", "body", "step", "done"
    keysA,    \* reference set: the keys put into a and not deleted since
    keysB,    \* reference set: the keys put into b
    pure      \* TRUE while a has been derived by Upserts alone

vars == <<cmp, a, b, last, it, seen, pc, keysA, keysB, pure>>

\* ------------------------------------------------------------------ bounds
\* keys of the two trees that are combined
MaxKey == 5
\* keys of the tree that is versioned and looped over
MaxVersionKey == 4
\* verifySorted puts the keys 0 .. sampleSize-1 (200000 of them) into one tree
SampleSize == 7

Keys == 1..MaxKey
VersionKeys == 1..MaxVersionKey
SampleKeys == 0..(SampleSize - 1)

\* ------------------------------------------------------------ node values
red == TRUE
black == FALSE

Nil == [kind |-> "nil"]
Panic == [kind |-> "panic"]
NilTree == [kind |-> "niltree"]

Item(k, v) == [key |-> k, val |-> v]

node(item, c, left, right) ==
    [kind |-> "node", item |-> item, c |-> c, left |-> left, right |-> right]

RedBlackTree(compareFn, root) ==
    [kind |-> "tree", compare |-> compareFn, root |-> root]

\* ------------------------------------------------------------- comparators
\* example.go compare: exactly -1 / 0 / +1, on the key of the item
compare(x, y) ==
    IF x.key < y.key THEN -1 ELSE IF x.key = y.key THEN 0 ELSE 1

\* a comparator of the negative/zero/positive convention: a - b
compareDiff(x, y) == x.key - y.key

Compare(c, this, that) ==
    IF c = "compare" THEN compare(this, that) ELSE compareDiff(this, that)

\* ------------------------------------------------------------ node methods
copyWithEntry(n, item) ==
    IF n = Panic \/ n = Nil THEN Panic ELSE [n EXCEPT !.item = item]

copyWithLeft(n, left) ==
    IF n = Panic \/ n = Nil \/ left = Panic THEN Panic
    ELSE [n EXCEPT !.left = left]

copyWithRight(n, right) ==
    IF n = Panic \/ n = Nil \/ right = Panic THEN Panic
    ELSE [n EXCEPT !.right = right]

copyWithColor(n, c) ==
    IF n = Panic \/ n = Nil THEN Panic
    ELSE IF n.c = c THEN n
    ELSE node(n.item, c, n.left, n.right)

newNode(item) == node(item, red, Nil, Nil)

isRed(n) == n.c = red

\* balance without its right case
balanceNoRightCase(n) ==
    IF n = Panic THEN Panic
    ELSE IF n = Nil THEN Nil
    ELSE IF n.c = red THEN n
    ELSE IF n.left # Nil /\ isRed(n.left)
            /\ n.left.right # Nil /\ isRed(n.left.right)
    THEN node(n.left.right.item, red,
              node(n.left.item, black, n.left.left, n.left.right.left),
              node(n.item, black, n.left.right.right, n.right))
    ELSE IF n.left # Nil /\ isRed(n.left)
            /\ n.left.left # Nil /\ isRed(n.left.left)
    THEN node(n.left.item, red,
              copyWithColor(n.left.left, black),
              node(n.item, black, n.left.right, n.right))
    ELSE IF n.right # Nil /\ isRed(n.right)
            /\ n.right.left # Nil /\ isRed(n.right.left)
    THEN node(n.right.left.item, red,
              node(n.item, black, n.left, n.right.left.left),
              node(n.right.item, black, n.right.left.right, n.right.right))
    ELSE n

balance(n) ==
    IF n = Panic THEN Panic
    ELSE IF n = Nil THEN Nil
    ELSE IF n.c = red THEN n
    \* top case
    ELSE IF n.left # Nil /\ isRed(n.left)
            /\ n.left.right # Nil /\ isRed(n.left.right)
    THEN node(n.left.right.item, red,
              node(n.left.item, black, n.left.left, n.left.right.left),
              node(n.item, black, n.left.right.right, n.right))
    \* left case
    ELSE IF n.left # Nil /\ isRed(n.left)
            /\ n.left.left # Nil /\ isRed(n.left.left)
    THEN node(n.left.item, red,
              copyWithColor(n.left.left, black),
              node(n.item, black, n.left.right, n.right))
    \* right case
    ELSE IF n.right # Nil /\ isRed(n.right)
            /\ n.right.right # Nil /\ isRed(n.right.right)
    THEN node(n.right.item, red,
              node(n.item, black, n.left, n.right.left),
              copyWithColor(n.right.right, black))
    \* bottom case
    ELSE IF n.right # Nil /\ isRed(n.right)
            /\ n.right.left # Nil /\ isRed(n.right.left)
    THEN node(n.right.left.item, red,
              node(n.item, black, n.left, n.right.left.left),
              node(n.right.item, black, n.right.left.right, n.right.right))
    ELSE n

RECURSIVE upsert(_, _, _)
upsert(n, c, inserting) ==
    IF n = Panic \/ inserting = Panic THEN Panic
    ELSE IF inserting = Nil THEN n
    ELSE IF n = Nil THEN Panic
    ELSE LET r == Compare(c, inserting.item, n.item) IN
         IF r = 0
         THEN balance(upsert(balance(upsert(copyWithEntry(n, inserting.item),
                                            c, inserting.right)),
                             c, inserting.left))
         ELSE IF r = -1
         THEN IF n.left = Nil
              THEN balance(copyWithLeft(n, inserting))
              ELSE upsert(balance(copyWithLeft(n,
                              upsert(n.left, c,
                                     balance(copyWithRight(inserting, Nil))))),
                          c, inserting.right)
         ELSE IF n.right = Nil
              THEN balance(copyWithRight(n, inserting))
              ELSE upsert(balance(copyWithRight(n,
                              upsert(n.right, c,
                                     balance(copyWithLeft(inserting, Nil))))),
                          c, inserting.left)

combinedChildren(n, c) ==
    IF n = Panic \/ n = Nil THEN Panic
    ELSE IF n.left = Nil THEN n.right
    ELSE upsert(n.left, c, n.right)

RECURSIVE intersection(_, _, _)
intersection(n, c, intersecting) ==
    IF n = Panic \/ intersecting = Panic THEN Panic
    ELSE IF n = Nil THEN Nil
    ELSE IF intersecting = Nil THEN Nil
    ELSE LET r == Compare(c, intersecting.item, n.item) IN
         IF r = 0
         THEN LET rightIntersection ==
                      balance(intersection(n.right, c, intersecting.right))
                  leftIntersection ==
                      balance(intersection(n.left, c, intersecting.left))
              IN  balance(copyWithLeft(
                      balance(copyWithRight(n, rightIntersection)),
                      leftIntersection))
         ELSE IF r = -1
         THEN LET leftIntersect ==
                      intersection(n.left, c,
                                   balance(copyWithRight(intersecting, Nil)))
              IN  IF leftIntersect = Panic THEN Panic
                  ELSE IF leftIntersect = Nil
                  THEN intersection(n, c, intersecting.right)
                  ELSE balance(copyWithRight(leftIntersect,
                                   intersection(n, c, intersecting.right)))
         ELSE LET rightIntersect ==
                      intersection(n.right, c,
                                   balance(copyWithLeft(intersecting, Nil)))
              IN  IF rightIntersect = Panic THEN Panic
                  ELSE IF rightIntersect = Nil
                  THEN intersection(n, c, intersecting.left)
                  ELSE balance(copyWithLeft(rightIntersect,
                                   intersection(n, c, intersecting.left)))

RECURSIVE subtract(_, _, _)
subtract(n, c, subtracting) ==
    IF n = Panic \/ subtracting = Panic THEN Panic
    ELSE IF subtracting = Nil THEN n
    ELSE IF n = Nil THEN Panic
    ELSE LET r == Compare(c, subtracting.item, n.item) IN
         IF r = 0
         THEN subtract(subtract(combinedChildren(n, c), c, subtracting.right),
                       c, subtracting.left)
         ELSE IF r = -1
         THEN IF n.left = Nil
              THEN n
              ELSE subtract(balance(copyWithLeft(n,
                                subtract(n.left, c,
                                         balance(copyWithRight(subtracting, Nil))))),
                            c, subtracting.right)
         ELSE IF n.right = Nil
              THEN n
              ELSE subtract(balance(copyWithRight(n,
                                subtract(n.right, c,
                                         balance(copyWithLeft(subtracting, Nil))))),
                            c, subtracting.left)

\* ------------------------------------------------------------ tree methods
NewRedBlack(compareFn) == RedBlackTree(compareFn, Nil)

\* a tree built around a root expression that may have panicked
WithRoot(r, root) ==
    IF root = Panic THEN Panic ELSE RedBlackTree(r.compare, root)

Upsert(r, item) ==
    IF r = Panic \/ r = NilTree THEN Panic
    ELSE IF r.root = Nil
    THEN RedBlackTree(r.compare, node(item, black, Nil, Nil))
    ELSE WithRoot(r, copyWithColor(upsert(r.root, r.compare, newNode(item)), black))

Delete(r, item) ==
    IF r = Panic \/ r = NilTree THEN Panic
    ELSE IF r.root = Nil THEN r
    ELSE WithRoot(r, copyWithColor(subtract(r.root, r.compare, newNode(item)), black))

Subtract(r, other) ==
    IF r = Panic \/ r = NilTree \/ other = Panic THEN Panic
    ELSE IF r.root = Nil THEN r
    ELSE IF other = NilTree THEN Panic
    ELSE WithRoot(r, copyWithColor(subtract(r.root, r.compare, other.root), black))

Union(r, other) ==
    IF r = Panic \/ r = NilTree \/ other = Panic THEN Panic
    ELSE IF r.root = Nil THEN other
    ELSE IF other = NilTree THEN Panic
    ELSE WithRoot(r, copyWithColor(upsert(r.root, r.compare, other.root), black))

Intersection(r, other) ==
    IF r = Panic \/ r = NilTree \/ other = Panic THEN Panic
    ELSE IF r.root = Nil THEN NilTree
    ELSE IF other = NilTree THEN Panic
    ELSE WithRoot(r, copyWithColor(intersection(r.root, r.compare, other.root), black))

\* ---------------------------------------------------------------- iterator
nodeIterator(unprocStack, current) ==
    [unprocStack |-> unprocStack, current |-> current]

\* the loop of Iterator: walk to the leftmost node, stacking the ancestors
RECURSIVE IteratorDescend(_, _, _)
IteratorDescend(n, stack, current) ==
    IF n.left # Nil
    THEN IteratorDescend(n.left, Append(stack, current), n.left)
    ELSE nodeIterator(stack, current)

Iterator(r) ==
    IF r = Panic \/ r = NilTree THEN Panic
    ELSE IF r.root = Nil THEN nodeIterator(<<>>, Nil)
    ELSE IteratorDescend(r.root, <<>>, r.root)

\* the zero value of the item type
zeroVal == Item(0, "")

Elem(i) == IF i.current = Nil THEN zeroVal ELSE i.current.item

HasElem(i) == i.current # Nil

\* the loop of Next without cursor = cursor.left
NextPushNoDescent(stack, cursor) ==
    IF cursor # Nil THEN Append(stack, cursor) ELSE stack

\* the loop of Next: stack cursor and its chain of left children
RECURSIVE NextPush(_, _)
NextPush(stack, cursor) ==
    IF cursor # Nil THEN NextPush(Append(stack, cursor), cursor.left)
    ELSE stack

nodeIteratorNext(i) ==
    IF i.current = Nil THEN i
    ELSE LET stack == NextPush(i.unprocStack, i.current.right) IN
         IF Len(stack) >= 1
         THEN nodeIterator(SubSeq(stack, 1, Len(stack) - 1), stack[Len(stack)])
         ELSE nodeIterator(stack, Nil)

\* for it := t.Iterator(); it.HasElem(); it.Next() { out = append(out, it.Elem()) }
RECURSIVE IterateLoop(_, _)
IterateLoop(i, out) ==
    IF HasElem(i) THEN IterateLoop(nodeIteratorNext(i), Append(out, Elem(i)))
    ELSE out

Iterate(r) == IterateLoop(Iterator(r), <<>>)

\* --------------------------------------------------------------- drivers
NoItem == [kind |-> "none"]

Call(op, recv, recvKeys, item, other, out) ==
    [op |-> op, recv |-> recv, recvKeys |-> recvKeys, recvPure |-> pure,
     item |-> item, other |-> other, otherKeys |-> keysB, out |-> out]

NoCall ==
    [op |-> "none", recv |-> NilTree, recvKeys |-> {}, recvPure |-> TRUE,
     item |-> NoItem, other |-> NilTree, otherKeys |-> {}, out |-> NilTree]

\* a panic ends the program
Alive == last.out # Panic

InitWith(compareFn) ==
    /\ cmp = compareFn
    /\ a = NewRedBlack(compareFn)
    /\ b = NewRedBlack(compareFn)
    /\ last = NoCall
    /\ it = nodeIterator(<<>>, Nil)
    /\ seen = <<>>
    /\ pc = "idle"
    /\ keysA = {}
    /\ keysB = {}
    /\ pure = TRUE

Init == InitWith("compare")

InitDiff == InitWith("compareDiff")

\* rb1 = rb1.Upsert(i)
UpsertA(k) ==
    /\ Alive
    /\ pc = "idle"
    /\ LET out == Upsert(a, Item(k, "a")) IN
         /\ last' = Call("Upsert", a, keysA, Item(k, "a"), NilTree, out)
         /\ a' = IF out = Panic THEN a ELSE out
    /\ keysA' = keysA \cup {k}
    /\ UNCHANGED <<cmp, b, it, seen, pc, keysB, pure>>

\* rb2 = rb2.Upsert(i)
UpsertB(k) ==
    /\ Alive
    /\ LET out == Upsert(b, Item(k, "b")) IN
         /\ last' = Call("Upsert", b, keysB, Item(k, "b"), NilTree, out)
         /\ b' = IF out = Panic THEN b ELSE out
    /\ keysB' = keysB \cup {k}
    /\ UNCHANGED <<cmp, a, it, seen, pc, keysA, pure>>

\* rb = rb.Delete(i)
DeleteA(k) ==
    /\ Alive
    /\ pc = "idle"
    /\ LET out == Delete(a, Item(k, "a")) IN
         /\ last' = Call("Delete", a, keysA, Item(k, "a"), NilTree, out)
         /\ a' = IF out = Panic THEN a ELSE out
    /\ keysA' = keysA \ {k}
    /\ pure' = FALSE
    /\ UNCHANGED <<cmp, b, it, seen, pc, keysB>>

\* newer := rb.Upsert(i), between two steps of a loop over rb
DeriveUpsert(k) ==
    /\ Alive
    /\ pc # "idle"
    /\ last' = Call("Upsert", a, keysA, Item(k, "a"), NilTree,
                    Upsert(a, Item(k, "a")))
    /\ UNCHANGED <<cmp, a, b, it, seen, pc, keysA, keysB, pure>>

\* newer := rb.Delete(i), between two steps of a loop over rb
DeriveDelete(k) ==
    /\ Alive
    /\ pc # "idle"
    /\ last' = Call("Delete", a, keysA, Item(k, "a"), NilTree,
                    Delete(a, Item(k, "a")))
    /\ UNCHANGED <<cmp, a, b, it, seen, pc, keysA, keysB, pure>>

\* rbFinal := rb1.Union(rb2)
DoUnion ==
    /\ Alive
    /\ last' = Call("Union", a, keysA, NoItem, b, Union(a, b))
    /\ UNCHANGED <<cmp, a, b, it, seen, pc, keysA, keysB, pure>>

\* rbFinal := rb1.Intersection(rb2)
DoIntersection ==
    /\ Alive
    /\ last' = Call("Intersection", a, keysA, NoItem, b, Intersection(a, b))
    /\ UNCHANGED <<cmp, a, b, it, seen, pc, keysA, keysB, pure>>

\* rbFinal := rb1.Subtract(rb2)
DoSubtract ==
    /\ Alive
    /\ last' = Call("Subtract", a, keysA, NoItem, b, Subtract(a, b))
    /\ UNCHANGED <<cmp, a, b, it, seen, pc, keysA, keysB, pure>>

\* for it := rb.Iterator(); ...
LoopInit ==
    /\ Alive
    /\ pc = "idle"
    /\ it' = Iterator(a)
    /\ seen' = <<>>
    /\ pc' = "test"
    /\ UNCHANGED <<cmp, a, b, last, keysA, keysB, pure>>

\* ...; it.HasElem(); ...
LoopTest ==
    /\ Alive
    /\ pc = "test"
    /\ pc' = IF HasElem(it) THEN "body" ELSE "done"
    /\ UNCHANGED <<cmp, a, b, last, it, seen, keysA, keysB, pure>>

\* i := it.Elem()
LoopBody ==
    /\ Alive
    /\ pc = "body"
    /\ seen' = Append(seen, Elem(it))
    /\ pc' = "step"
    /\ UNCHANGED <<cmp, a, b, last, it, keysA, keysB, pure>>

\* ...; it.Next()
LoopNext ==
    /\ Alive
    /\ pc = "step"
    /\ it' = nodeIteratorNext(it)
    /\ pc' = "test"
    /\ UNCHANGED <<cmp, a, b, last, seen, keysA, keysB, pure>>

\* the loop is left behind; rb may be replaced again
LoopEnd ==
    /\ Alive
    /\ pc = "done"
    /\ it' = nodeIterator(<<>>, Nil)
    /\ seen' = <<>>
    /\ pc' = "idle"
    /\ UNCHANGED <<cmp, a, b, last, keysA, keysB, pure>>

\* two trees built by Upserts and combined (verifyUnion, verifyIntersection,
\* verifySubtract)
Next ==
    \/ \E k \in Keys : UpsertA(k)
    \/ \E k \in Keys : UpsertB(k)
    \/ DoUnion
    \/ DoIntersection
    \/ DoSubtract

Spec == Init /\ [][Next]_vars

\* one tree built by Upserts alone (verifySorted)
NextUpsert == \E k \in SampleKeys : UpsertA(k)

SpecUpsert == Init /\ [][NextUpsert]_vars

\* one tree built by Upserts under the comparator a - b
NextDiff == \E k \in Keys : UpsertA(k)

SpecDiff == InitDiff /\ [][NextDiff]_vars

\* one tree, its versions and loops over them (verifyDelete)
NextVersions ==
    \/ \E k \in VersionKeys : UpsertA(k)
    \/ \E k \in VersionKeys : DeleteA(k)
    \/ \E k \in VersionKeys : DeriveUpsert(k)
    \/ \E k \in VersionKeys : DeriveDelete(k)
    \/ LoopInit
    \/ LoopTest
    \/ LoopBody
    \/ LoopNext
    \/ LoopEnd

SpecVersions == Init /\ [][NextVersions]_vars

\* ------------------------------------------------- red-black invariants
\* Invariant 1: no red node has a red child
RECURSIVE NoRedRed(_)
NoRedRed(n) ==
    \/ n = Nil
    \/ /\ n.c = red => /\ (n.left # Nil => n.left.c = black)
                       /\ (n.right # Nil => n.right.c = black)
       /\ NoRedRed(n.left)
       /\ NoRedRed(n.right)

\* Invariant 2: the number of black nodes on every path from n to an empty
\* child (which counts one), or -1 when two paths differ
RECURSIVE BlackHeight(_)
BlackHeight(n) ==
    IF n = Nil THEN 1
    ELSE LET l == BlackHeight(n.left)
             r == BlackHeight(n.right)
         IN  IF l < 0 \/ r < 0 \/ l # r THEN -1
             ELSE IF n.c = black THEN l + 1 ELSE l

\* Invariant 3 reads the keys in order
RECURSIVE InOrder(_)
InOrder(n) ==
    IF n = Nil THEN <<>>
    ELSE InOrder(n.left) \o <<n.item.key>> \o InOrder(n.right)

StrictlyIncreasing(s) == \A i \in 1..(Len(s) - 1) : s[i] < s[i + 1]

Balanced(t) == NoRedRed(t.root) /\ BlackHeight(t.root) >= 0

\* ------------------------------------------------------------- reference
\* the plain sorted list without duplicates of a set of keys
RECURSIVE SortedSeq(_)
SortedSeq(S) ==
    IF S = {} THEN <<>>
    ELSE LET m == CHOOSE x \in S : \A y \in S : x <= y
         IN  <<m>> \o SortedSeq(S \ {m})

KeysOf(items) == [i \in DOMAIN items |-> items[i].key]

\* a call returned a tree (it did not panic and did not return a nil tree)
Returned(t) == t # Panic /\ t # NilTree

\* --------------------------------------------------------------- claims

\* C1: from the empty tree, under the -1/0/+1 comparator, the tree returned
\* by every Upsert has no red node with a red child, the same number of
\* black nodes on every path from the root to an empty child, and strictly
\* increasing keys in order.
C1_UpsertKeepsInvariants ==
    last.op = "Upsert" =>
        /\ Returned(last.out)
        /\ NoRedRed(last.out.root)
        /\ BlackHeight(last.out.root) >= 0
        /\ StrictlyIncreasing(InOrder(last.out.root))

\* an Upsert of a key already present into a tree of at least four keys
C1_Witness ==
    /\ last.op = "Upsert"
    /\ Cardinality(last.recvKeys) >= 4
    /\ last.item.key \in last.recvKeys
    /\ Returned(last.out)

\* C2: Delete on a tree built by Upserts never fails, and the result
\* iterates to the content of the tree without the key of the item: the
\* same content when the key is absent, the empty tree when it was the only
\* element.
C2_DeleteRemovesKey ==
    (last.op = "Delete" /\ last.recvPure) =>
        /\ Returned(last.out)
        /\ KeysOf(Iterate(last.out)) = SortedSeq(last.recvKeys \ {last.item.key})
        /\ (last.recvKeys = {last.item.key} => last.out.root = Nil)

\* C3: in any interleaving of Upserts and Deletes, the tree returned by a
\* Delete has no red node with a red child and the same number of black
\* nodes on every path from the root to an empty child.
C3_DeleteKeepsInvariants ==
    (last.op = "Delete" /\ Returned(last.out)) => Balanced(last.out)

\* the sorted union, with b's item for every key of b
UnionRef ==
    LET ks == SortedSeq(last.recvKeys \cup last.otherKeys) IN
    [i \in DOMAIN ks |->
        Item(ks[i], IF ks[i] \in last.otherKeys THEN "b" ELSE "a")]

\* C4: iterating A.Union(B) yields, in strictly increasing order, exactly
\* the keys of A or B, each once, with B's item for the keys of both.
C4_UnionContent ==
    last.op = "Union" =>
        /\ Returned(last.out)
        /\ Iterate(last.out) = UnionRef

\* C5: for A and B sharing a key, iterating A.Intersection(B) yields, in
\* strictly increasing order, exactly the keys of both.
C5_IntersectionContent ==
    (last.op = "Intersection" /\ last.recvKeys \cap last.otherKeys # {}) =>
        /\ Returned(last.out)
        /\ KeysOf(Iterate(last.out)) = SortedSeq(last.recvKeys \cap last.otherKeys)

\* C6: A.Subtract(B) completes, and iterating the result yields, in strictly
\* increasing order, exactly the keys of A that are not keys of B.
C6_SubtractContent ==
    last.op = "Subtract" =>
        /\ Returned(last.out)
        /\ KeysOf(Iterate(last.out)) = SortedSeq(last.recvKeys \ last.otherKeys)

\* C7: a loop over the iterator of a tree T built by Upserts reads T's
\* keys in strictly increasing order, each once, and then finds no element,
\* whatever Upserts and Deletes derive newer trees from T between its
\* steps; a fresh iterator of T then yields the same sequence.
C7_IteratorSnapshot ==
    (pc # "idle" /\ pure) =>
        LET ref == SortedSeq(keysA) IN
        /\ Len(seen) <= Len(ref)
        /\ KeysOf(seen) = SubSeq(ref, 1, Len(seen))
        /\ (pc \in {"body", "step"} => HasElem(it))
        /\ (pc = "body" => Len(seen) < Len(ref))
        /\ (pc = "done" => /\ Len(seen) = Len(ref)
                           /\ ~HasElem(it)
                           /\ Iterate(a) = seen)

\* a finished loop over a tree of four keys or more, a Delete having
\* derived a newer tree from it meanwhile
C7_Witness ==
    /\ pc = "done"
    /\ pure
    /\ Cardinality(keysA) >= 4
    /\ Len(seen) = Cardinality(keysA)
    /\ last.op = "Delete"
    /\ last.recv = a
    /\ Returned(last.out)
    /\ last.out # a

\* C8: for A and B sharing no key, A.Intersection(B) returns a tree with no
\* root, and an iterator of it has no element.
C8_IntersectionEmpty ==
    (last.op = "Intersection" /\ last.recvKeys \cap last.otherKeys = {}) =>
        /\ Returned(last.out)
        /\ last.out.root = Nil
        /\ ~HasElem(Iterator(last.out))

\* C9: every tree returned by Union, Intersection or Subtract has no red node
\* with a red child and the same number of black nodes on every path from
\* the root to an empty child.
C9_SetAlgebraBalanced ==
    (last.op \in {"Union", "Intersection", "Subtract"} /\ Returned(last.out)) =>
        Balanced(last.out)

\* C10: under the comparator a - b, iterating the tree after any sequence
\* of Upserts yields exactly the distinct keys put in, strictly increasing.
C10_DiffComparator ==
    last.op = "Upsert" =>
        /\ Returned(last.out)
        /\ KeysOf(Iterate(last.out)) = SortedSeq(last.recvKeys \cup {last.item.key})

====
